---- MODULE Spec2Model ----
(***************************************************************************)
(* Model of gdnative-derive/src/methods.rs: the #[methods] attribute macro *)
(* (derive_methods / impl_gdnative_expose).  An impl block is a sequence   *)
(* of items; the macro strips the #[export] attribute from methods,        *)
(* validates and normalizes the exported signatures and emits the body of  *)
(* NativeClassMethods::register.                                           *)
(*                                                                         *)
(* Sequences are 1-based here; Rust positions are 0-based.  Where the code *)
(* uses a 0-based position (enumerate() in the normalizer) the model       *)
(* passes k - 1.  Option<usize> is modelled as 0 = None, k = Some(k - 1).  *)
(***************************************************************************)
EXTENDS Naturals, Sequences, FiniteSets, TLC

(* ------------------------------ bounds -------------------------------- *)
\* items of the impl block
MaxItems == 2
\* attributes on one item
MaxAttrs == 2
\* parameters of one signature
MaxArgs == 2

(* --------------------------- syntax (syn) ----------------------------- *)
Attr(style, path) == [style |-> style, path |-> path]

UserIdent(sym) == [sym |-> sym, span |-> "input"]

Generics(t, l, c) == [type_params |-> t, lifetimes |-> l, const_params |-> c]

NoGenerics == Generics(0, 0, 0)

Receiver(reference, mut) == [arg |-> "Receiver", reference |-> reference, mutability |-> mut]

Typed(pat, ty) == [arg |-> "Typed", pat |-> pat, ty |-> ty]

PatWild == [pat |-> "Wild"]

PatIdentOf(sym, mut) ==
    [pat |-> "Ident", by_ref |-> FALSE, mutability |-> mut, ident |-> UserIdent(sym)]

PatTuple == [pat |-> "Tuple"]

Signature(name, generics, inputs, unsafety) ==
    [ident |-> UserIdent(name), generics |-> generics,
     inputs |-> inputs, unsafety |-> unsafety]

Method(attrs, sig) == [kind |-> "Method", attrs |-> attrs, sig |-> sig]

Const(attrs, name) == [kind |-> "Const", attrs |-> attrs, ident |-> UserIdent(name)]

(* ------------------------- pure helper functions ---------------------- *)
Digit(d) == <<"0", "1", "2", "3", "4", "5", "6", "7", "8", "9">>[d + 1]

RECURSIVE DecimalString(_)
DecimalString(n) ==
    IF n < 10 THEN Digit(n) ELSE DecimalString(n \div 10) \o Digit(n % 10)

\* mutant: the position is left out of the name
UnusedArgNameNoIndex(i) == "___unused_arg_"

\* format!("___unused_arg_{}", i)
UnusedArgName(i) == "___unused_arg_" \o DecimalString(i)

\* ident.to_string()
IdentToString(ident) == ident.sym

\* mutant: only the last segment of the path is compared
IsExportAttrLastSegment(attr) ==
    /\ Len(attr.path) > 0
    /\ attr.path[Len(attr.path)] = "export"
    /\ attr.style = "Outer"

\* the closure handed to position(): the first segment named "export"
\* decides, and the answer is the attribute's style
IsExportAttr(attr) ==
    /\ \E k \in 1..Len(attr.path) : attr.path[k] = "export"
    /\ attr.style = "Outer"

\* method.attrs.iter().position(..): 0 = None, k = Some(k - 1)
AttributePos(attrs) ==
    IF \E k \in 1..Len(attrs) : IsExportAttr(attrs[k])
    THEN CHOOSE k \in 1..Len(attrs) :
             /\ IsExportAttr(attrs[k])
             /\ \A j \in 1..(k - 1) : ~IsExportAttr(attrs[j])
    ELSE 0

\* Vec::remove(idx)
RemoveAt(s, k) == [j \in 1..(Len(s) - 1) |-> IF j < k THEN s[j] ELSE s[j + 1]]

\* mutant: a method without the marker loses its attributes
FilterItemClearAttrs(func) ==
    IF func.kind = "Method"
    THEN LET idx == AttributePos(func.attrs) IN
         IF idx # 0
         THEN LET method == [func EXCEPT !.attrs = RemoveAt(func.attrs, idx)] IN
              [item |-> method, pushed |-> <<method.sig>>]
         ELSE [item |-> [func EXCEPT !.attrs = <<>>], pushed |-> <<>>]
    ELSE [item |-> func, pushed |-> <<>>]

\* mutant: the unsafety qualifier is cleared on the item, not on the copy
FilterItemStripUnsafe(func) ==
    IF func.kind = "Method"
    THEN LET idx == AttributePos(func.attrs) IN
         IF idx # 0
         THEN LET method == [func EXCEPT !.attrs = RemoveAt(func.attrs, idx),
                                         !.sig.unsafety = FALSE] IN
              [item |-> method, pushed |-> <<method.sig>>]
         ELSE [item |-> func, pushed |-> <<>>]
    ELSE [item |-> func, pushed |-> <<>>]

\* the match arm for one item of the impl block: the item pushed back onto
\* result.items and the signatures pushed onto methods_to_export
FilterItem(func) ==
    IF func.kind = "Method"
    THEN LET idx == AttributePos(func.attrs) IN
         IF idx # 0
         THEN LET method == [func EXCEPT !.attrs = RemoveAt(func.attrs, idx)] IN
              [item |-> method, pushed |-> <<method.sig>>]
         ELSE [item |-> func, pushed |-> <<>>]
    ELSE [item |-> func, pushed |-> <<>>]

\* mutant: the checks do not `continue`, every violated category is printed
DiagnosticsNoContinue(method) ==
    (IF method.generics.type_params > 0
     THEN <<"type parameters not allowed in exported functions">> ELSE <<>>)
    \o (IF method.generics.lifetimes > 0
        THEN <<"lifetime parameters not allowed in exported functions">> ELSE <<>>)
    \o (IF method.generics.const_params > 0
        THEN <<"const parameters not allowed in exported functions">> ELSE <<>>)

\* the shape check: the lines printed for a signature before `continue`,
\* none when the signature is accepted
Diagnostics(method) ==
    IF method.generics.type_params > 0
    THEN <<"type parameters not allowed in exported functions">>
    ELSE IF method.generics.lifetimes > 0
    THEN <<"lifetime parameters not allowed in exported functions">>
    ELSE IF method.generics.const_params > 0
    THEN <<"const parameters not allowed in exported functions">>
    ELSE <<>>

\* mutant: the Pat::Ident arm keeps the binding as it is
NormalizeArgKeepMut(i, arg) ==
    IF arg.arg = "Typed" /\ arg.pat.pat = "Wild"
    THEN [arg EXCEPT !.pat =
             [pat |-> "Ident", by_ref |-> FALSE, mutability |-> FALSE,
              ident |-> [sym |-> UnusedArgName(i), span |-> "call_site"]]]
    ELSE arg

\* the for_each closure over inputs.iter_mut().enumerate(); i is 0-based
NormalizeArg(i, arg) ==
    IF arg.arg = "Typed"
    THEN IF arg.pat.pat = "Wild"
         THEN [arg EXCEPT !.pat =
                  [pat |-> "Ident", by_ref |-> FALSE, mutability |-> FALSE,
                   ident |-> [sym |-> UnusedArgName(i), span |-> "call_site"]]]
         ELSE IF arg.pat.pat = "Ident"
         THEN [arg EXCEPT !.pat.mutability = FALSE]
         ELSE arg
    ELSE arg

\* what is pushed onto export.methods for an accepted signature
Normalize(method) ==
    [method EXCEPT
        !.inputs = [k \in 1..Len(method.inputs) |-> NormalizeArg(k - 1, method.inputs[k])],
        !.unsafety = FALSE]

\* mutant: the key is the class, not the method
RegisterBlockClassKey(class_name, m) ==
    << [call |-> "godot_wrap_method", class |-> class_name, sig |-> m],
       [call |-> "add_method", name |-> class_name] >>

\* mutant: the wrapper is registered before it is built
RegisterBlockAddFirst(class_name, m) ==
    << [call |-> "add_method", name |-> IdentToString(m.ident)],
       [call |-> "godot_wrap_method", class |-> class_name, sig |-> m] >>

\* the block quoted for one exported method
RegisterBlock(class_name, m) ==
    << [call |-> "godot_wrap_method", class |-> class_name, sig |-> m],
       [call |-> "add_method", name |-> IdentToString(m.ident)] >>

(* ------------------------------ inputs -------------------------------- *)
SeqsUpTo(S, n) == UNION {[1..k -> S] : k \in 0..n}

AttrCatalog ==
    { Attr("Outer", <<"export">>),
      Attr("Inner", <<"export">>),
      Attr("Outer", <<"export", "rpc">>),
      Attr("Outer", <<"gdnative", "export">>),
      Attr("Outer", <<"inline">>) }

AttrLists == SeqsUpTo(AttrCatalog, MaxAttrs)

\* &self and mut self
ReceiverCatalog == {Receiver(TRUE, FALSE), Receiver(FALSE, TRUE)}

TypedCatalog ==
    { Typed(PatWild, "i32"),
      Typed(PatIdentOf("x", FALSE), "i64"),
      Typed(PatIdentOf("x", TRUE), "f32"),
      Typed(PatIdentOf("___unused_arg_1", FALSE), "f64"),
      Typed(PatTuple, "(i32, i32)") }

\* the receiver can only come first, and rustc rejects two parameters
\* bound to the same identifier
WellFormedInputs(inputs) ==
    /\ \A k \in 1..Len(inputs) : k > 1 => inputs[k].arg = "Typed"
    /\ \A j, k \in 1..Len(inputs) :
         (/\ j < k
          /\ inputs[j].arg = "Typed" /\ inputs[j].pat.pat = "Ident"
          /\ inputs[k].arg = "Typed" /\ inputs[k].pat.pat = "Ident")
         => inputs[j].pat.ident.sym # inputs[k].pat.ident.sym

ArgLists ==
    {inputs \in SeqsUpTo(ReceiverCatalog \cup TypedCatalog, MaxArgs) : WellFormedInputs(inputs)}

GenericsSet == {Generics(t, l, c) : t \in {0, 1}, l \in {0, 1}, c \in {0, 1}}

Export == Attr("Outer", <<"export">>)

SelfRef == Receiver(TRUE, FALSE)

\* the item under study: every attribute list on a method and on a
\* non-method item, every generics shape, every parameter list
FocusMembers ==
    {Method(attrs, Signature("a", NoGenerics, <<SelfRef, Typed(PatIdentOf("x", TRUE), "f32")>>, TRUE)) :
        attrs \in AttrLists}
    \cup {Const(attrs, "K") : attrs \in AttrLists}
    \cup {Method(<<Export>>, Signature(n, g, <<SelfRef>>, FALSE)) :
            n \in {"a", "b"}, g \in GenericsSet}
    \cup {Method(<<Export>>, Signature("a", NoGenerics, inputs, u)) :
            inputs \in ArgLists, u \in BOOLEAN}

\* the items around it
ContextMembers ==
    { Method(<<Export>>, Signature("b", NoGenerics, <<SelfRef, Typed(PatWild, "i32")>>, FALSE)),
      Method(<<Export>>, Signature("g", Generics(1, 0, 0), <<SelfRef>>, FALSE)),
      Method(<<Attr("Outer", <<"inline">>)>>, Signature("c", NoGenerics, <<SelfRef>>, FALSE)),
      Const(<<Export>>, "K") }

(* ------------------------------- state -------------------------------- *)
VARIABLES
    ast,                \* the parsed impl block handed to impl_gdnative_expose
    result,             \* the impl block being rebuilt
    methods_to_export,  \* the worklist
    export,             \* ClassMethodExport
    stderr,             \* lines printed by eprintln!
    output,             \* the token stream of derive_methods: impl block + register body
    pc,                 \* "filter", "check", "emit", "done"
    next_item,          \* items of ast.items consumed by the first loop
    next_method,        \* entries consumed by the second loop / by the map in derive_methods
    origin,             \* history: the item position each worklist entry, export and diagnostic came from
    pass                \* how many times the macro has been applied

vars == <<ast, result, methods_to_export, export, stderr, output, pc,
          next_item, next_method, origin, pass>>

NoOrigin == [worklist |-> <<>>, exported |-> <<>>, rejected |-> <<>>]

NoOutput == [impl_block |-> "None", register |-> <<>>]

\* impl_gdnative_expose up to its first loop
Enter(block) ==
    /\ ast = block
    /\ result = [self_ty |-> block.self_ty, items |-> <<>>]
    /\ methods_to_export = <<>>
    /\ export = [class_ty |-> block.self_ty, methods |-> <<>>]
    /\ stderr = <<>>
    /\ output = NoOutput
    /\ pc = "filter"
    /\ next_item = 0
    /\ next_method = 0
    /\ origin = NoOrigin

Init ==
    /\ pass = 1
    /\ \E p \in 0..(MaxItems - 1) : \E q \in 0..(MaxItems - 1 - p) :
         \E pre \in [1..p -> ContextMembers] : \E m \in FocusMembers :
             \E post \in [1..q -> ContextMembers] :
                 Enter([self_ty |-> "Foo", items |-> pre \o <<m>> \o post])

\* one iteration of `for func in ast.items`
FilterStep ==
    /\ pc = "filter"
    /\ next_item < Len(ast.items)
    /\ LET r == FilterItem(ast.items[next_item + 1]) IN
         /\ result' = [result EXCEPT !.items = Append(@, r.item)]
         /\ methods_to_export' = methods_to_export \o r.pushed
         /\ origin' = [origin EXCEPT !.worklist =
                          IF r.pushed # <<>> THEN Append(@, next_item + 1) ELSE @]
    /\ next_item' = next_item + 1
    /\ UNCHANGED <<ast, export, stderr, output, pc, next_method, pass>>

\* the first loop is exhausted
FilterEnd ==
    /\ pc = "filter"
    /\ next_item = Len(ast.items)
    /\ pc' = "check"
    /\ UNCHANGED <<ast, result, methods_to_export, export, stderr, output,
                   next_item, next_method, origin, pass>>

\* mutant: a rejected signature ends the loop (`break` for `continue`)
CheckStepBreak ==
    /\ pc = "check"
    /\ next_method < Len(methods_to_export)
    /\ LET method == methods_to_export[next_method + 1]
           from == origin.worklist[next_method + 1]
           printed == Diagnostics(method) IN
         IF printed # <<>>
         THEN /\ stderr' = stderr \o printed
              /\ origin' = [origin EXCEPT !.rejected = @ \o [j \in 1..Len(printed) |-> from]]
              /\ next_method' = Len(methods_to_export)
              /\ UNCHANGED export
         ELSE /\ export' = [export EXCEPT !.methods = Append(@, Normalize(method))]
              /\ origin' = [origin EXCEPT !.exported = Append(@, from)]
              /\ next_method' = next_method + 1
              /\ UNCHANGED stderr
    /\ UNCHANGED <<ast, result, methods_to_export, output, pc, next_item, pass>>

\* one iteration of `for mut method in methods_to_export`
CheckStep ==
    /\ pc = "check"
    /\ next_method < Len(methods_to_export)
    /\ LET method == methods_to_export[next_method + 1]
           from == origin.worklist[next_method + 1]
           printed == Diagnostics(method) IN
         IF printed # <<>>
         THEN /\ stderr' = stderr \o printed
              /\ origin' = [origin EXCEPT !.rejected = @ \o [j \in 1..Len(printed) |-> from]]
              /\ UNCHANGED export
         ELSE /\ export' = [export EXCEPT !.methods = Append(@, Normalize(method))]
              /\ origin' = [origin EXCEPT !.exported = Append(@, from)]
              /\ UNCHANGED stderr
    /\ next_method' = next_method + 1
    /\ UNCHANGED <<ast, result, methods_to_export, output, pc, next_item, pass>>

\* impl_gdnative_expose returns (result, export) to derive_methods
Return ==
    /\ pc = "check"
    /\ next_method = Len(methods_to_export)
    /\ pc' = "emit"
    /\ next_method' = 0
    /\ UNCHANGED <<ast, result, methods_to_export, export, stderr, output,
                   next_item, origin, pass>>

\* the map closure of derive_methods on one exported method
EmitStep ==
    /\ pc = "emit"
    /\ next_method < Len(export.methods)
    /\ output' = [output EXCEPT !.register =
                     @ \o RegisterBlock(export.class_ty, export.methods[next_method + 1])]
    /\ next_method' = next_method + 1
    /\ UNCHANGED <<ast, result, methods_to_export, export, stderr, pc,
                   next_item, origin, pass>>

\* the final quote!: the impl block followed by the register routine
Quote ==
    /\ pc = "emit"
    /\ next_method = Len(export.methods)
    /\ output' = [output EXCEPT !.impl_block = result]
    /\ pc' = "done"
    /\ UNCHANGED <<ast, result, methods_to_export, export, stderr,
                   next_item, next_method, origin, pass>>

\* the macro applied to the impl block it produced
Reapply ==
    /\ pc = "done"
    /\ pass = 1
    /\ pass' = 2
    /\ ast' = output.impl_block
    /\ result' = [self_ty |-> output.impl_block.self_ty, items |-> <<>>]
    /\ methods_to_export' = <<>>
    /\ export' = [class_ty |-> output.impl_block.self_ty, methods |-> <<>>]
    /\ stderr' = <<>>
    /\ output' = NoOutput
    /\ pc' = "filter"
    /\ next_item' = 0
    /\ next_method' = 0
    /\ origin' = NoOrigin

Next ==
    \/ FilterStep
    \/ FilterEnd
    \/ CheckStep
    \/ Return
    \/ EmitStep
    \/ Quote
    \/ Reapply

Spec == Init /\ [][Next]_vars

(* ----------------------- vocabulary of the claims --------------------- *)
Range(s) == {s[k] : k \in 1..Len(s)}

Done == pc = "done"

ItemIdx == 1..Len(ast.items)

\* the marker: an outer attribute with a path segment named export
CarriesMarker(item) ==
    /\ item.kind = "Method"
    /\ \E k \in 1..Len(item.attrs) :
         /\ item.attrs[k].style = "Outer"
         /\ \E n \in 1..Len(item.attrs[k].path) : item.attrs[k].path[n] = "export"

IsGeneric(sig) ==
    \/ sig.generics.type_params > 0
    \/ sig.generics.lifetimes > 0
    \/ sig.generics.const_params > 0

\* marked functions without / with generic parameters, by position
Accepted == {k \in ItemIdx : CarriesMarker(ast.items[k]) /\ ~IsGeneric(ast.items[k].sig)}

Rejected == {k \in ItemIdx : CarriesMarker(ast.items[k]) /\ IsGeneric(ast.items[k].sig)}

NameOf(k) == ast.items[k].sig.ident.sym

\* how often a name is the key of an add_method call of register
KeyCount(name) ==
    Cardinality({j \in 1..Len(output.register) :
                    /\ output.register[j].call = "add_method"
                    /\ output.register[j].name = name})

\* the register blocks that came from item k
BlocksOf(k) == {j \in 1..Len(origin.exported) : origin.exported[j] = k}

\* register block j is complete and keyed by name
BlockKeyed(j, name) ==
    /\ 2 * j <= Len(output.register)
    /\ output.register[2 * j].call = "add_method"
    /\ output.register[2 * j].name = name

(* ------------------------------- C1 ----------------------------------- *)
\* C1 as stated: once register is emitted, the name of every marked function
\* without generic parameters is the key of exactly one add_method call.
C1_NameKeyedExactlyOnce ==
    Done => \A k \in Accepted : KeyCount(NameOf(k)) = 1

\* C1 amended: every marked function without generic parameters gets exactly
\* one register block, whose add_method call is keyed by the function's name;
\* its name is a key once per marked non-generic function bearing that name
\* (once when no other such function shares the name).
C1_OneBlockPerFunction ==
    Done => \A k \in Accepted :
              /\ Cardinality(BlocksOf(k)) = 1
              /\ \A j \in BlocksOf(k) : BlockKeyed(j, NameOf(k))
              /\ KeyCount(NameOf(k)) = Cardinality({h \in Accepted : NameOf(h) = NameOf(k)})

\* two marked non-generic functions share a name and register is emitted
C1_Witness ==
    /\ Done
    /\ \E h, k \in Accepted : h # k /\ NameOf(h) = NameOf(k) /\ KeyCount(NameOf(k)) = 2

(* ------------------------------- C2 ----------------------------------- *)
\* the line that names a category of generic parameter
LineNaming(category) == category \o " parameters not allowed in exported functions"

Declares(sig, category) ==
    \/ category = "type" /\ sig.generics.type_params > 0
    \/ category = "lifetime" /\ sig.generics.lifetimes > 0
    \/ category = "const" /\ sig.generics.const_params > 0

\* the lines of stderr printed for item k
LinesOf(k) == {j \in 1..Len(origin.rejected) : origin.rejected[j] = k}

\* C2: once register is emitted, a marked function with a generic parameter
\* has no register block, has a diagnostic naming a category it declares, is
\* still an item of the reproduced impl block with its signature, and every
\* marked function without generic parameters is registered under its name.
C2_GenericRejectedOthersRegistered ==
    Done => \A k \in Rejected :
              /\ BlocksOf(k) = {}
              /\ \A j \in 1..Len(output.register) :
                   output.register[j].call = "godot_wrap_method"
                       => ~IsGeneric(output.register[j].sig)
              /\ \E j \in LinesOf(k) : \E category \in {"type", "lifetime", "const"} :
                   /\ j <= Len(stderr)
                   /\ Declares(ast.items[k].sig, category)
                   /\ stderr[j] = LineNaming(category)
              /\ Len(output.impl_block.items) = Len(ast.items)
              /\ output.impl_block.items[k].kind = "Method"
              /\ output.impl_block.items[k].sig = ast.items[k].sig
              /\ \A h \in Accepted :
                   /\ BlocksOf(h) # {}
                   /\ \A j \in BlocksOf(h) : BlockKeyed(j, NameOf(h))

\* a rejected function declared before an accepted one, register emitted
C2_Witness ==
    /\ Done
    /\ \E k \in Rejected : \E h \in Accepted : k < h /\ KeyCount(NameOf(h)) = 1

(* ------------------------------- C10 ---------------------------------- *)
FirstCategory(sig) ==
    IF sig.generics.type_params > 0 THEN "type"
    ELSE IF sig.generics.lifetimes > 0 THEN "lifetime"
    ELSE "const"

\* C10: once the validation loop has ended, every marked function with a
\* generic parameter has exactly one line on stderr, naming the first category
\* it declares in the order type, lifetime, const; no other item has a line;
\* the number of lines is the number of marked generic functions.
C10_OneDiagnosticPerRejected ==
    pc \in {"emit", "done"} =>
        /\ Len(stderr) = Cardinality(Rejected)
        /\ Len(origin.rejected) = Len(stderr)
        /\ \A k \in Rejected :
             /\ Cardinality(LinesOf(k)) = 1
             /\ \A j \in LinesOf(k) : stderr[j] = LineNaming(FirstCategory(ast.items[k].sig))
        /\ \A k \in ItemIdx \ Rejected : LinesOf(k) = {}

\* a marked function declaring generic parameters of several categories
C10_Witness ==
    /\ Done
    /\ \E k \in Rejected :
         /\ ast.items[k].sig.generics.lifetimes > 0
         /\ ast.items[k].sig.generics.const_params > 0
         /\ Cardinality(LinesOf(k)) = 1

(* ------------------------------- C9 ----------------------------------- *)
\* the j-th marked non-generic function in declaration order
NthAccepted(j) == CHOOSE k \in Accepted : Cardinality({h \in Accepted : h < k}) = j - 1

\* C9: the register routine is one block per marked non-generic function, in
\* declaration order; each block wraps the function and then registers the
\* wrapper under the function's name.
C9_RegistrationInDeclarationOrder ==
    Done =>
        /\ Len(output.register) = 2 * Cardinality(Accepted)
        /\ \A j \in 1..Cardinality(Accepted) :
             /\ output.register[2 * j - 1].call = "godot_wrap_method"
             /\ output.register[2 * j - 1].class = ast.self_ty
             /\ output.register[2 * j - 1].sig.ident.sym = NameOf(NthAccepted(j))
             /\ output.register[2 * j].call = "add_method"
             /\ output.register[2 * j].name = NameOf(NthAccepted(j))

\* two registered functions with different names
C9_Witness ==
    /\ Done
    /\ \E h, k \in Accepted : h < k /\ NameOf(h) # NameOf(k)
    /\ Len(output.register) = 4

(* ------------------------------- C3 ----------------------------------- *)
\* the parameter identifiers of a signature, by position (patterns that bind
\* no single identifier have none)
BindsIdent(arg) == arg.arg = "Typed" /\ arg.pat.pat = "Ident"

IsWild(arg) == arg.arg = "Typed" /\ arg.pat.pat = "Wild"

DistinctIdents(inputs) ==
    \A p, q \in 1..Len(inputs) :
        (p < q /\ BindsIdent(inputs[p]) /\ BindsIdent(inputs[q]))
            => inputs[p].pat.ident.sym # inputs[q].pat.ident.sym

\* the synthesized name expected at a 0-based position
Synthesized(i) ==
    "___unused_arg_" \o <<"0", "1", "2", "3", "4", "5", "6", "7", "8", "9">>[i + 1]

\* the item a normalized signature came from
SourceOf(j) == ast.items[origin.exported[j]].sig

\* C3 as stated: every wildcard of an exported signature becomes the prefix
\* plus its 0-based position, and all parameter identifiers of the exported
\* signature are pairwise distinct, user-chosen names included.
C3_AllIdentifiersDistinct ==
    \A j \in 1..Len(export.methods) :
        /\ \A p \in 1..Len(SourceOf(j).inputs) :
             IsWild(SourceOf(j).inputs[p]) =>
                 /\ BindsIdent(export.methods[j].inputs[p])
                 /\ export.methods[j].inputs[p].pat.ident.sym = Synthesized(p - 1)
        /\ DistinctIdents(export.methods[j].inputs)

\* C3 amended: every wildcard of an exported signature becomes the prefix plus
\* its 0-based position; the synthesized identifiers of one signature are
\* pairwise distinct, and every identifier parameter keeps its user-chosen name
\* (which may equal a synthesized one).
C3_SynthesizedDistinct ==
    \A j \in 1..Len(export.methods) :
        /\ Len(export.methods[j].inputs) = Len(SourceOf(j).inputs)
        /\ \A p \in 1..Len(SourceOf(j).inputs) :
             /\ IsWild(SourceOf(j).inputs[p]) =>
                  /\ BindsIdent(export.methods[j].inputs[p])
                  /\ export.methods[j].inputs[p].pat.ident.sym = Synthesized(p - 1)
                  /\ export.methods[j].inputs[p].ty = SourceOf(j).inputs[p].ty
             /\ BindsIdent(SourceOf(j).inputs[p]) =>
                  /\ BindsIdent(export.methods[j].inputs[p])
                  /\ export.methods[j].inputs[p].pat.ident = SourceOf(j).inputs[p].pat.ident
        /\ \A p, q \in 1..Len(SourceOf(j).inputs) :
             (p < q /\ IsWild(SourceOf(j).inputs[p]) /\ IsWild(SourceOf(j).inputs[q]))
                 => export.methods[j].inputs[p].pat.ident.sym
                        # export.methods[j].inputs[q].pat.ident.sym

\* an exported signature that had two wildcards
C3_Witness ==
    \E j \in 1..Len(export.methods) : \E p, q \in 1..Len(SourceOf(j).inputs) :
        /\ p < q
        /\ IsWild(SourceOf(j).inputs[p])
        /\ IsWild(SourceOf(j).inputs[q])
        /\ BindsIdent(export.methods[j].inputs[q])

(* ------------------------------- C7 ----------------------------------- *)
\* C7: in every exported signature, a parameter that was `mut ident: T` is
\* `ident: T` at the same position, and every other identifier parameter keeps
\* its identifier and type.
C7_MutabilityStripped ==
    \A j \in 1..Len(export.methods) :
        /\ Len(export.methods[j].inputs) = Len(SourceOf(j).inputs)
        /\ \A p \in 1..Len(SourceOf(j).inputs) :
             BindsIdent(SourceOf(j).inputs[p]) =>
                 /\ BindsIdent(export.methods[j].inputs[p])
                 /\ export.methods[j].inputs[p].pat.ident = SourceOf(j).inputs[p].pat.ident
                 /\ export.methods[j].inputs[p].pat.mutability = FALSE
                 /\ export.methods[j].inputs[p].pat.by_ref = SourceOf(j).inputs[p].pat.by_ref
                 /\ export.methods[j].inputs[p].ty = SourceOf(j).inputs[p].ty

\* an exported signature that had a `mut` identifier parameter
C7_Witness ==
    \E j \in 1..Len(export.methods) : \E p \in 1..Len(SourceOf(j).inputs) :
        /\ BindsIdent(SourceOf(j).inputs[p])
        /\ SourceOf(j).inputs[p].pat.mutability
        /\ ~export.methods[j].inputs[p].pat.mutability

(* ------------------------------- C8 ----------------------------------- *)
\* s is t with at most one element taken out
SameOrOneRemoved(s, t) ==
    \/ s = t
    \/ \E k \in 1..Len(t) :
         s = [j \in 1..(Len(t) - 1) |-> IF j < k THEN t[j] ELSE t[j + 1]]

\* item k of the rebuilt impl block is item k of the input up to its attributes
Reproduced(items, k) ==
    /\ items[k].kind = ast.items[k].kind
    /\ SameOrOneRemoved(items[k].attrs, ast.items[k].attrs)
    /\ items[k].kind = "Method" => items[k].sig = ast.items[k].sig
    /\ items[k].kind = "Const" => items[k].ident = ast.items[k].ident

\* C8: the rebuilt impl block holds the input's items in the input's order,
\* each with the input's signature, whatever the later loops do to the
\* worklist copies; the emitted impl block has all of them.
C8_ReproducedUpToAttributes ==
    /\ Len(result.items) = next_item
    /\ \A k \in 1..Len(result.items) : Reproduced(result.items, k)
    /\ Done =>
         /\ Len(output.impl_block.items) = Len(ast.items)
         /\ \A k \in ItemIdx : Reproduced(output.impl_block.items, k)

\* an exported signature was normalized and the emitted item still has the
\* input's signature
C8_Witness ==
    /\ Done
    /\ \E j \in 1..Len(export.methods) :
         /\ export.methods[j] # SourceOf(j)
         /\ SourceOf(j).unsafety
         /\ output.impl_block.items[origin.exported[j]].sig = SourceOf(j)

(* ------------------------------- C5 ----------------------------------- *)
FinalSegmentMarker(attr) ==
    /\ attr.style = "Outer"
    /\ Len(attr.path) > 0
    /\ attr.path[Len(attr.path)] = "export"

AnySegmentMarker(attr) ==
    /\ attr.style = "Outer"
    /\ \E n \in 1..Len(attr.path) : attr.path[n] = "export"

\* the methods the first loop has put on the worklist
Selected == Range(origin.worklist)

\* C5 as stated: a method the first loop has passed is on the worklist iff
\* one of its attributes is outer with final segment export, and every other
\* attribute is still on it, in order.
C5_FinalSegmentSelects ==
    \A k \in 1..next_item :
        ast.items[k].kind = "Method" =>
            /\ k \in Selected <=>
                 \E a \in 1..Len(ast.items[k].attrs) : FinalSegmentMarker(ast.items[k].attrs[a])
            /\ SelectSeq(result.items[k].attrs, LAMBDA a : ~FinalSegmentMarker(a))
                 = SelectSeq(ast.items[k].attrs, LAMBDA a : ~FinalSegmentMarker(a))

\* C5 amended: a method is selected iff one of its attributes is outer and has
\* a path segment, final or not, equal to export; an inner attribute and an
\* attribute without such a segment neither select the method nor are removed.
C5_AnySegmentSelects ==
    \A k \in 1..next_item :
        ast.items[k].kind = "Method" =>
            /\ k \in Selected <=>
                 \E a \in 1..Len(ast.items[k].attrs) : AnySegmentMarker(ast.items[k].attrs[a])
            /\ SelectSeq(result.items[k].attrs, LAMBDA a : ~AnySegmentMarker(a))
                 = SelectSeq(ast.items[k].attrs, LAMBDA a : ~AnySegmentMarker(a))
            /\ k \in Selected => Len(result.items[k].attrs) = Len(ast.items[k].attrs) - 1

\* a method selected through #[export::rpc] next to an inner export attribute
C5_Witness ==
    \E k \in 1..next_item :
        /\ ast.items[k].kind = "Method"
        /\ k \in Selected
        /\ \A a \in 1..Len(ast.items[k].attrs) : ~FinalSegmentMarker(ast.items[k].attrs[a])
        /\ \E a \in 1..Len(ast.items[k].attrs) : ast.items[k].attrs[a].style = "Inner"
        /\ \E a \in 1..Len(result.items[k].attrs) : result.items[k].attrs[a].style = "Inner"

(* ------------------------------- C6 ----------------------------------- *)
\* C6: an item that is not a marked function is pushed back as it is and never
\* reaches the worklist; once register is emitted it is in the emitted impl
\* block as it was, has no register block, and its name is no key unless a
\* registered function bears it.
C6_UnmarkedUntouched ==
    /\ \A k \in 1..next_item :
         ~CarriesMarker(ast.items[k]) =>
             /\ result.items[k] = ast.items[k]
             /\ k \notin Selected
    /\ Done =>
         /\ Len(output.register) = 2 * Len(origin.exported)
         /\ \A k \in ItemIdx :
              ~CarriesMarker(ast.items[k]) =>
                  /\ output.impl_block.items[k] = ast.items[k]
                  /\ BlocksOf(k) = {}
                  /\ (/\ ast.items[k].kind = "Method"
                      /\ \A h \in Accepted : NameOf(h) # NameOf(k))
                         => KeyCount(NameOf(k)) = 0

\* an unmarked item with attributes next to a registered function
C6_Witness ==
    /\ Done
    /\ Len(output.register) > 0
    /\ \E k \in ItemIdx :
         /\ ~CarriesMarker(ast.items[k])
         /\ Len(ast.items[k].attrs) > 0
         /\ output.impl_block.items[k] = ast.items[k]

(* ------------------------------- C4 ----------------------------------- *)
\* C4: once the first loop has ended no item of the rebuilt impl block carries
\* the marker, and a second application to the emitted impl block selects
\* nothing and rebuilds its input.
C4_MarkerRemovalIdempotent ==
    /\ pc # "filter" =>
         \A k \in 1..Len(result.items) : ~CarriesMarker(result.items[k])
    /\ (pass = 2 /\ pc # "filter") =>
         /\ methods_to_export = <<>>
         /\ result.items = ast.items

====
